---- MODULE Spec2Model ----
(***************************************************************************)
(* Model of src/lib/scroll-animation.ts: observeScrollAnimations and       *)
(* observeMultiple, together with the part of the host platform they use   *)
(* (the document, element class lists, IntersectionObserver instances and  *)
(* the delivery of intersection entries to an observer's callback).        *)
(*                                                                         *)
(* Conventions                                                             *)
(*  - Elements are the elements of the page; doc is the set of those that  *)
(*    are in the document; classList[e] is the set of classes of e.        *)
(*  - An optional field of ScrollAnimationOptions is a sequence: <<>> when *)
(*    the field is not supplied, <<v>> when it is supplied with value v.   *)
(*  - threshold is kept in hundredths (0.2 is 20, 0.3 is 30).              *)
(*  - An IntersectionObserver instance is an entry of the sequence         *)
(*    observers; its handle is its index there and the handle 0 is null.   *)
(*  - The environment of a call is a record telling whether "window" and   *)
(*    "IntersectionObserver" are defined when the call evaluates typeof.   *)
(***************************************************************************)
EXTENDS Integers, Sequences, FiniteSets, TLC

\* ------------------------------------------------------------------ bounds
MaxObservers == 2
MaxConfigs == 3

\* --------------------------------------------------------------- constants
DefaultThreshold == 20
DefaultRootMargin == "0px 0px -50px 0px"
DefaultVisibleClass == "visible"
DefaultOnce == TRUE

Null == 0

\* The page: "hero" is in the document when the page script starts, "card"
\* is attached later (see AppendChild).
Elements == {"hero", "card"}
InitialDoc == {"hero"}

\* The markup: every element carries the class "fade-in-up".
InitialClasses(e) == {"fade-in-up"}

\* Selectors a caller passes: two class selectors and a malformed one.
\* ".visible" matches no element until some watcher has added "visible".
MalformedSelector == "div["
Selectors == {".fade-in-up", ".visible", MalformedSelector}

\* The class a valid (class) selector names.
SelectorClass(selector) ==
    CASE selector = ".fade-in-up" -> "fade-in-up"
      [] selector = ".visible"    -> "visible"
      [] OTHER                    -> "?"

IsMalformed(selector) == selector = MalformedSelector

NoOptions ==
    [threshold |-> <<>>, rootMargin |-> <<>>, visibleClass |-> <<>>, once |-> <<>>]

\* Option objects a caller passes.
OptionChoices ==
    { NoOptions,
      [NoOptions EXCEPT !.once = <<FALSE>>, !.visibleClass = <<"shown">>,
                        !.threshold = <<30>>,
                        !.rootMargin = <<"0px 0px -100px 0px">>] }

Browser == [window |-> TRUE, IntersectionObserver |-> TRUE]
NoObserverApi == [window |-> TRUE, IntersectionObserver |-> FALSE]
NoWindow == [window |-> FALSE, IntersectionObserver |-> FALSE]
Environments == {Browser, NoObserverApi, NoWindow}

VARIABLES
    doc,        \* elements attached to the document
    classList,  \* classList[e]: the classes of element e
    observers,  \* the IntersectionObserver instances constructed so far
    queried,    \* number of document.querySelectorAll calls made so far
    last        \* the most recent operation, its inputs and its outcome; for
                \* a callback, the observer's handle and the targets of the
                \* entries of the batch that were not intersecting

vars == <<doc, classList, observers, queried, last>>

\* ----------------------------------------------------- observeScrollAnimations

\* A destructuring default: the supplied value, or the default when absent.
OrDefault(field, default) == IF field = <<>> THEN default ELSE field[1]

\* Mutant: defaults taken with ||, so a supplied falsy value is replaced too.
ResolveOptionsFalsy(options) ==
    LET OrElse(field, default) ==
            IF field = <<>> \/ field = <<FALSE>> \/ field = <<0>>
            THEN default ELSE field[1]
    IN  [threshold    |-> OrElse(options.threshold, DefaultThreshold),
         rootMargin   |-> OrElse(options.rootMargin, DefaultRootMargin),
         visibleClass |-> OrElse(options.visibleClass, DefaultVisibleClass),
         once         |-> OrElse(options.once, DefaultOnce)]

ResolveOptions(options) ==
    [threshold    |-> OrDefault(options.threshold, DefaultThreshold),
     rootMargin   |-> OrDefault(options.rootMargin, DefaultRootMargin),
     visibleClass |-> OrDefault(options.visibleClass, DefaultVisibleClass),
     once         |-> OrDefault(options.once, DefaultOnce)]

\* Mutant: only window is checked.
EnvironmentUnsupportedWindowOnly(env) == ~env.window

EnvironmentUnsupported(env) ==
    (~env.window) \/ (~env.IntersectionObserver)

\* new IntersectionObserver(callback, {threshold, rootMargin}); the callback
\* closes over visibleClass and once.  selector, present, matched and handled are
\* history fields: the selector of the call, the document and the elements
\* matched when it was made, and per element whether the callback has handled
\* an intersecting entry for it never, once or again after that.
NewObserver(selector, cfg) ==
    [threshold    |-> cfg.threshold,
     rootMargin   |-> cfg.rootMargin,
     visibleClass |-> cfg.visibleClass,
     once         |-> cfg.once,
     targets      |-> {},
     selector     |-> selector,
     matched      |-> {},
     present      |-> {},
     handled      |-> [e \in Elements |-> "never"]]

\* Mutant: the query also returns elements that are not in the document.
QuerySelectorAllDetached(selector, d, cl) ==
    {e \in Elements : SelectorClass(selector) \in cl[e]}

\* document.querySelectorAll(selector) for a valid selector.
QuerySelectorAll(selector, d, cl) ==
    {e \in d : SelectorClass(selector) \in cl[e]}

\* The name of the exception document.querySelectorAll throws for a selector
\* it cannot parse.
QuerySelectorError(selector) == "SyntaxError"

\* elements.forEach(el => observer.observe(el))
ObserveAll(o, elements) ==
    [o EXCEPT !.targets = o.targets \cup elements, !.matched = elements]


\* Mutant: the class replaces the class list (className = class).
ClassListAssign(cl, target, class) ==
    [cl EXCEPT ![target] = {class}]

\* element.classList.add(class): class lists are sets, adding is idempotent.
ClassListAdd(cl, target, class) ==
    [cl EXCEPT ![target] = @ \cup {class}]

\* Mutant: unobserve has no effect.
UnobserveNothing(o, target) == o

\* observer.unobserve(target)
Unobserve(o, target) ==
    [o EXCEPT !.targets = @ \ {target}]

\* Mutant: the callback unobserves the target whatever once is.
HandleEntryAlwaysUnobserve(o, entry, cl) ==
    IF entry.isIntersecting
    THEN LET noted == [o EXCEPT !.handled[entry.target] =
                                    IF @ = "never" THEN "once" ELSE "again"]
         IN  [observer  |-> [noted EXCEPT !.targets = @ \ {entry.target}],
              classList |-> [cl EXCEPT ![entry.target] = @ \cup {o.visibleClass}]]
    ELSE [observer |-> o, classList |-> cl]

\* Mutant: the callback toggles the class with isIntersecting.
HandleEntryToggle(o, entry, cl) ==
    IF entry.isIntersecting
    THEN LET noted == [o EXCEPT !.handled[entry.target] =
                                    IF @ = "never" THEN "once" ELSE "again"]
         IN  [observer  |-> IF o.once
                            THEN [noted EXCEPT !.targets = @ \ {entry.target}]
                            ELSE noted,
              classList |-> [cl EXCEPT ![entry.target] = @ \cup {o.visibleClass}]]
    ELSE [observer |-> o,
          classList |-> [cl EXCEPT ![entry.target] = @ \ {o.visibleClass}]]

\* Mutant: the callback adds the default class whatever visibleClass is.
HandleEntryDefaultClass(o, entry, cl) ==
    IF entry.isIntersecting
    THEN LET noted == [o EXCEPT !.handled[entry.target] =
                                    IF @ = "never" THEN "once" ELSE "again"]
         IN  [observer  |-> IF o.once
                            THEN [noted EXCEPT !.targets = @ \ {entry.target}]
                            ELSE noted,
              classList |-> [cl EXCEPT ![entry.target] = @ \cup {"visible"}]]
    ELSE [observer |-> o, classList |-> cl]

\* Mutant: with once set, the target is unobserved outside the isIntersecting
\* test.
HandleEntryUnobserveOutsideIf(o, entry, cl) ==
    LET shown == IF entry.isIntersecting
                 THEN [observer  |-> [o EXCEPT !.handled[entry.target] =
                                         IF @ = "never" THEN "once" ELSE "again"],
                       classList |-> [cl EXCEPT ![entry.target] =
                                         @ \cup {o.visibleClass}]]
                 ELSE [observer |-> o, classList |-> cl]
    IN  [observer  |-> IF o.once
                       THEN [shown.observer EXCEPT !.targets = @ \ {entry.target}]
                       ELSE shown.observer,
         classList |-> shown.classList]

\* Mutant: with once set, an intersecting target is unobserved and the class
\* is not added.
HandleEntryUnobserveOnly(o, entry, cl) ==
    IF entry.isIntersecting
    THEN LET noted == [o EXCEPT !.handled[entry.target] =
                                    IF @ = "never" THEN "once" ELSE "again"]
         IN  IF o.once
             THEN [observer  |-> [noted EXCEPT !.targets = @ \ {entry.target}],
                   classList |-> cl]
             ELSE [observer  |-> noted,
                   classList |-> [cl EXCEPT ![entry.target] =
                                     @ \cup {o.visibleClass}]]
    ELSE [observer |-> o, classList |-> cl]

\* The body of entries.forEach in the observer's callback, for one entry.
\* The result is the observer and the class lists after the entry.
HandleEntry(o, entry, cl) ==
    IF entry.isIntersecting
    THEN LET noted == [o EXCEPT !.handled[entry.target] =
                                    IF @ = "never" THEN "once" ELSE "again"]
         IN  [observer  |-> IF o.once THEN Unobserve(noted, entry.target)
                                      ELSE noted,
              classList |-> ClassListAdd(cl, entry.target, o.visibleClass)]
    ELSE [observer |-> o, classList |-> cl]

\* The observer's callback: entries.forEach(...), in the order of the batch.
RECURSIVE Callback(_, _, _)
Callback(o, entries, cl) ==
    IF entries = <<>>
    THEN [observer |-> o, classList |-> cl]
    ELSE LET r == HandleEntry(o, Head(entries), cl)
         IN  Callback(r.observer, Tail(entries), r.classList)

\* Mutant: the SyntaxError of the query is caught and the observer returned.
ObserveScrollAnimationsCallCatching(selector, options, env, obs, q, d, cl) ==
    LET cfg == ResolveOptions(options)
    IN  IF EnvironmentUnsupported(env)
        THEN [observers |-> obs, queried |-> q,
              outcome |-> "return", error |-> "", value |-> Null]
        ELSE LET o == [NewObserver(selector, cfg) EXCEPT !.present = d]
                 found == IF IsMalformed(selector) THEN {}
                          ELSE QuerySelectorAll(selector, d, cl)
             IN  [observers |-> Append(obs, ObserveAll(o, found)),
                  queried |-> q + 1,
                  outcome |-> "return", error |-> "",
                  value |-> Len(obs) + 1]

\* Mutant: a call that matches no element returns null.
ObserveScrollAnimationsCallNullWhenEmpty(selector, options, env, obs, q, d, cl) ==
    LET cfg == ResolveOptions(options)
    IN  IF EnvironmentUnsupported(env)
        THEN [observers |-> obs, queried |-> q,
              outcome |-> "return", error |-> "", value |-> Null]
        ELSE LET o == [NewObserver(selector, cfg) EXCEPT !.present = d]
             IN  IF IsMalformed(selector)
                 THEN [observers |-> Append(obs, o), queried |-> q + 1,
                       outcome |-> "throw",
                       error |-> QuerySelectorError(selector), value |-> Null]
                 ELSE [observers |->
                           Append(obs, ObserveAll(o, QuerySelectorAll(selector, d, cl))),
                       queried |-> q + 1,
                       outcome |-> "return", error |-> "",
                       value |-> IF QuerySelectorAll(selector, d, cl) = {}
                                 THEN Null ELSE Len(obs) + 1]

\* Mutant: the selector is queried first, before the environment check and
\* before the observer is constructed.
ObserveScrollAnimationsCallQueryFirst(selector, options, env, obs, q, d, cl) ==
    LET cfg == ResolveOptions(options)
        o == [NewObserver(selector, cfg) EXCEPT !.present = d]
    IN  IF IsMalformed(selector)
        THEN [observers |-> obs, queried |-> q + 1,
              outcome |-> "throw",
              error |-> QuerySelectorError(selector), value |-> Null]
        ELSE IF EnvironmentUnsupported(env)
        THEN [observers |-> obs, queried |-> q + 1,
              outcome |-> "return", error |-> "", value |-> Null]
        ELSE [observers |->
                  Append(obs, ObserveAll(o, QuerySelectorAll(selector, d, cl))),
              queried |-> q + 1, outcome |-> "return", error |-> "",
              value |-> Len(obs) + 1]

\* Mutant: one observer is shared by all calls after the first.
ObserveScrollAnimationsCallShared(selector, options, env, obs, q, d, cl) ==
    LET cfg == ResolveOptions(options)
        o == [NewObserver(selector, cfg) EXCEPT !.present = d]
    IN  IF EnvironmentUnsupported(env)
        THEN [observers |-> obs, queried |-> q,
              outcome |-> "return", error |-> "", value |-> Null]
        ELSE IF IsMalformed(selector)
        THEN [observers |-> Append(obs, o), queried |-> q + 1,
              outcome |-> "throw",
              error |-> QuerySelectorError(selector), value |-> Null]
        ELSE IF obs = <<>>
        THEN [observers |->
                  Append(obs, ObserveAll(o, QuerySelectorAll(selector, d, cl))),
              queried |-> q + 1, outcome |-> "return", error |-> "",
              value |-> Len(obs) + 1]
        ELSE [observers |->
                  [obs EXCEPT ![Len(obs)] =
                      ObserveAll(@, QuerySelectorAll(selector, d, cl))],
              queried |-> q + 1, outcome |-> "return", error |-> "",
              value |-> Len(obs)]

\* observeScrollAnimations(selector, options) called in environment env, with
\* obs the observers constructed so far, q the queries made so far, d the
\* document and cl the class lists.  outcome is "return" or "throw"; value is
\* the returned handle (Null for null, and Null when the call threw); error
\* is the name of the exception that left the call, "" when it returned.
ObserveScrollAnimationsCall(selector, options, env, obs, q, d, cl) ==
    LET cfg == ResolveOptions(options)
    IN  IF EnvironmentUnsupported(env)
        THEN [observers |-> obs, queried |-> q,
              outcome |-> "return", error |-> "", value |-> Null]
        ELSE LET o == [NewObserver(selector, cfg) EXCEPT !.present = d]
             IN  IF IsMalformed(selector)
                 THEN [observers |-> Append(obs, o), queried |-> q + 1,
                       outcome |-> "throw",
                       error |-> QuerySelectorError(selector), value |-> Null]
                 ELSE [observers |->
                           Append(obs, ObserveAll(o, QuerySelectorAll(selector, d, cl))),
                       queried |-> q + 1,
                       outcome |-> "return", error |-> "",
                       value |-> Len(obs) + 1]

\* ------------------------------------------------------------- observeMultiple

\* Mutant: the map stops at the first entry whose call yields null.
RECURSIVE MapConfigsStopAtNull(_, _, _, _, _, _)
MapConfigsStopAtNull(configs, envs, i, acc, d, cl) ==
    IF i > Len(configs)
    THEN acc
    ELSE LET r == ObserveScrollAnimationsCall(configs[i].selector,
                      configs[i].options, envs[i],
                      acc.observers, acc.queried, d, cl)
             next == [observers |-> r.observers, queried |-> r.queried,
                      outcome |-> "return", error |-> "",
                      mapped |-> Append(acc.mapped, r.value)]
         IN  IF r.outcome = "throw"
             THEN [observers |-> r.observers, queried |-> r.queried,
                   outcome |-> "throw", error |-> r.error,
                   mapped |-> acc.mapped]
             ELSE IF r.value = Null
                  THEN next
                  ELSE MapConfigsStopAtNull(configs, envs, i + 1, next, d, cl)

\* Mutant: when an entry throws, the observers the map has constructed are
\* discarded before the error leaves.
RECURSIVE MapConfigsRollback(_, _, _, _, _, _)
MapConfigsRollback(configs, envs, i, acc, d, cl) ==
    IF i > Len(configs)
    THEN acc
    ELSE LET r == ObserveScrollAnimationsCall(configs[i].selector,
                      configs[i].options, envs[i],
                      acc.observers, acc.queried, d, cl)
             Made(h) == h # Null
             made == Len(SelectSeq(acc.mapped, Made))
         IN  IF r.outcome = "throw"
             THEN [observers |-> SubSeq(acc.observers, 1, Len(acc.observers) - made),
                   queried |-> r.queried,
                   outcome |-> "throw", error |-> r.error,
                   mapped |-> acc.mapped]
             ELSE MapConfigsRollback(configs, envs, i + 1,
                      [observers |-> r.observers, queried |-> r.queried,
                       outcome |-> "return", error |-> "",
                       mapped |-> Append(acc.mapped, r.value)],
                      d, cl)

\* configs.map(({selector, options}) => observeScrollAnimations(selector,
\* options)) from entry i on; envs[i] is the environment the i-th call sees.
\* acc.mapped is the array built so far.  An entry that throws ends the map.
RECURSIVE MapConfigs(_, _, _, _, _, _)
MapConfigs(configs, envs, i, acc, d, cl) ==
    IF i > Len(configs)
    THEN acc
    ELSE LET r == ObserveScrollAnimationsCall(configs[i].selector,
                      configs[i].options, envs[i],
                      acc.observers, acc.queried, d, cl)
         IN  IF r.outcome = "throw"
             THEN [observers |-> r.observers, queried |-> r.queried,
                   outcome |-> "throw", error |-> r.error,
                   mapped |-> acc.mapped]
             ELSE MapConfigs(configs, envs, i + 1,
                      [observers |-> r.observers, queried |-> r.queried,
                       outcome |-> "return", error |-> "",
                       mapped |-> Append(acc.mapped, r.value)],
                      d, cl)

IsObserver(h) == h # Null

\* Mutant: the filter returns the surviving handles in reverse order.
FilterNonNullReversed(mapped) ==
    LET kept == SelectSeq(mapped, IsObserver)
    IN  [k \in 1 .. Len(kept) |-> kept[Len(kept) + 1 - k]]

\* Mutant: the filter keeps every result of the map.
FilterKeepsAll(mapped) == mapped

\* .filter(observer => observer !== null)
FilterNonNull(mapped) == SelectSeq(mapped, IsObserver)

\* observeMultiple(configs): the map, then the filter unless the map threw.
ObserveMultipleCall(configs, envs, obs, q, d, cl) ==
    LET m == MapConfigs(configs, envs, 1,
                 [observers |-> obs, queried |-> q,
                  outcome |-> "return", error |-> "", mapped |-> <<>>], d, cl)
    IN  [observers |-> m.observers, queried |-> m.queried,
         outcome |-> m.outcome, error |-> m.error, mapped |-> m.mapped,
         value |-> IF m.outcome = "throw" THEN <<>> ELSE FilterNonNull(m.mapped)]

\* ------------------------------------------------------------------- inputs

\* Entries a caller passes to observeMultiple (an entry without options is an
\* entry with NoOptions: the parameter default {} supplies no field).
ConfigChoices ==
    { [selector |-> ".fade-in-up", options |-> NoOptions],
      [selector |-> ".fade-in-up",
       options |-> [NoOptions EXCEPT !.once = <<FALSE>>, !.visibleClass = <<"shown">>]],
      [selector |-> MalformedSelector, options |-> NoOptions] }

\* Environments the calls made by one observeMultiple can see.
MultiEnvironments == {Browser, NoObserverApi}

SeqsUpTo(S, n) == UNION {[1 .. k -> S] : k \in 0 .. n}

\* The arrays a caller passes to observeMultiple.
ConfigLists == SeqsUpTo(ConfigChoices, MaxConfigs)

\* Sequences of length 1..n of distinct members of S.
RECURSIVE DistinctSeqs(_, _)
DistinctSeqs(S, n) ==
    IF n = 0 THEN {}
    ELSE {<<x>> : x \in S}
         \cup UNION {{<<x>> \o t : t \in DistinctSeqs(S \ {x}, n - 1)} : x \in S}

\* The batches the platform can hand to the callback of an observer with the
\* given observation targets: entries for targets it currently observes, at
\* most one entry per target in a batch.
Batches(targets) ==
    { [j \in 1 .. Len(ts) |-> [target |-> ts[j], isIntersecting |-> f[j]]] :
          ts \in DistinctSeqs(targets, Cardinality(targets)),
          f \in [1 .. Cardinality(targets) -> BOOLEAN] }

\* ------------------------------------------------------------------- machine

NoOperation ==
    [op |-> "load", configs |-> <<>>, envs |-> <<>>,
     outcome |-> "return", error |-> "", mapped |-> <<>>, value |-> <<>>,
     handle |-> Null, missed |-> {}]

Init ==
    /\ doc = InitialDoc
    /\ classList = [e \in Elements |-> InitialClasses(e)]
    /\ observers = <<>>
    /\ queried = 0
    /\ last = NoOperation

\* A script calls observeScrollAnimations(selector, options).
ObserveScrollAnimations(selector, options, env) ==
    \E r \in {ObserveScrollAnimationsCall(selector, options, env,
                    observers, queried, doc, classList)} :
        /\ Len(r.observers) <= MaxObservers
        /\ observers' = r.observers
        /\ queried' = r.queried
        /\ last' = [NoOperation EXCEPT
                       !.op = "observeScrollAnimations",
                       !.configs = <<[selector |-> selector, options |-> options]>>,
                       !.envs = <<env>>,
                       !.outcome = r.outcome,
                       !.error = r.error,
                       !.value = IF r.outcome = "throw" THEN <<>> ELSE <<r.value>>]
        /\ UNCHANGED <<doc, classList>>

\* Every way of supplying or omitting each of the four option fields.
SuppliedOrAbsent ==
    [threshold    : {<<>>, <<0>>},
     rootMargin   : {<<>>, <<"0px 0px -100px 0px">>},
     visibleClass : {<<>>, <<"shown">>},
     once         : {<<>>, <<FALSE>>}]

\* A script calls observeMultiple(configs).
ObserveMultiple(configs, envs) ==
    /\ (Len(observers) >= MaxObservers) =>
           \A i \in 1 .. Len(envs) : EnvironmentUnsupported(envs[i])
    /\ \E r \in {ObserveMultipleCall(configs, envs, observers, queried, doc, classList)} :
        /\ Len(r.observers) <= MaxObservers
        /\ observers' = r.observers
        /\ queried' = r.queried
        /\ last' = [NoOperation EXCEPT
                       !.op = "observeMultiple",
                       !.configs = configs,
                       !.envs = envs,
                       !.outcome = r.outcome,
                       !.error = r.error,
                       !.mapped = r.mapped,
                       !.value = r.value]
        /\ UNCHANGED <<doc, classList>>

\* The platform invokes the callback of observer h with a batch of entries.
Report(h, entries) ==
    /\ \E r \in {Callback(observers[h], entries, classList)} :
           /\ observers' = [observers EXCEPT ![h] = r.observer]
           /\ classList' = r.classList
    /\ last' = [NoOperation EXCEPT
                   !.op = "callback",
                   !.handle = h,
                   !.missed = {entries[j].target :
                                   j \in {i \in 1 .. Len(entries) :
                                              ~entries[i].isIntersecting}}]
    /\ UNCHANGED <<doc, queried>>

\* A script attaches an element to the document after the page has loaded.
AppendChild(e) ==
    /\ e \notin doc
    /\ doc' = doc \cup {e}
    /\ last' = [NoOperation EXCEPT !.op = "appendChild"]
    /\ UNCHANGED <<classList, observers, queried>>

\* A page whose scripts call observeScrollAnimations.
Next ==
    \/ \E selector \in Selectors, options \in OptionChoices, env \in Environments :
           ObserveScrollAnimations(selector, options, env)
    \/ \E h \in 1 .. Len(observers) :
           \E entries \in Batches(observers[h].targets) :
               Report(h, entries)
    \/ \E e \in Elements : AppendChild(e)

Spec == Init /\ [][Next]_vars

\* A page whose elements are all attached before its scripts run.
InitMultiple ==
    /\ doc = Elements
    /\ classList = [e \in Elements |-> InitialClasses(e)]
    /\ observers = <<>>
    /\ queried = 0
    /\ last = NoOperation

\* A page whose scripts call observeMultiple.
NextMultiple ==
    \/ \E configs \in ConfigLists :
           \E envs \in [1 .. Len(configs) -> MultiEnvironments] :
               ObserveMultiple(configs, envs)
    \/ \E h \in 1 .. Len(observers) :
           \E entries \in Batches(observers[h].targets) :
               Report(h, entries)

SpecMultiple == InitMultiple /\ [][NextMultiple]_vars

\* ================================================================== claims

Handles == 1 .. Len(observers)

IsCall == last.op = "observeScrollAnimations"
CallSelector == last.configs[1].selector
CallOptions == last.configs[1].options
CallEnv == last.envs[1]

\* The claims' own reading of an environment: window or IntersectionObserver
\* is not defined in it.
Unavailable(env) == (env.window = FALSE) \/ (env.IntersectionObserver = FALSE)

\* ---------------------------------------------------------------------- C1
\* C1: with once = true, an element that has been reported intersecting to a
\* watcher carries the watcher's visibleClass, is no longer among the targets
\* of the watcher's observer, and the watcher's callback has handled exactly
\* one intersecting entry for it (it is never evaluated again).
C1_OnceTriggersOnce ==
    \A h \in Handles :
        observers[h].once =>
            \A e \in Elements :
                observers[h].handled[e] # "never" =>
                    /\ observers[h].handled[e] = "once"
                    /\ observers[h].visibleClass \in classList[e]
                    /\ e \notin observers[h].targets

\* A once-watcher has handled an intersecting entry for one of two matched
\* elements and still observes the other.
C1_Witness ==
    /\ last.op = "callback"
    /\ observers[last.handle].once
    /\ \E e \in observers[last.handle].matched :
           /\ e \notin last.missed
           /\ observers[last.handle].handled[e] = "once"
    /\ observers[last.handle].targets # {}

\* ---------------------------------------------------------------------- C2
\* C2: with once = false, every element the callback has handled an
\* intersecting entry for carries visibleClass and is still a target of the
\* observer, and the observer's targets are always exactly the elements
\* matched when the call was made.
C2_RepeatKeepsObserving ==
    \A h \in Handles :
        ~observers[h].once =>
            /\ observers[h].targets = observers[h].matched
            /\ \A e \in Elements :
                   observers[h].handled[e] # "never" =>
                       /\ observers[h].visibleClass \in classList[e]
                       /\ e \in observers[h].targets

\* A watcher with once = false has just handled a repeated intersecting entry.
C2_Witness ==
    /\ last.op = "callback"
    /\ ~observers[last.handle].once
    /\ last.missed = {}
    /\ \E e \in observers[last.handle].targets :
           observers[last.handle].handled[e] = "again"

\* ---------------------------------------------------------------------- C3
\* C3: no step of any watcher removes a class: every class an element carries
\* before a step it still carries after it, for either value of once and also
\* when the step is a callback with a non-intersecting entry for the element.
C3_NeverRemovesClass ==
    [][\A e \in Elements : classList[e] \subseteq classList'[e]]_vars

\* A callback has just handled a non-intersecting entry for an element that
\* carries the watcher's visibleClass.
C3_Witness ==
    /\ last.op = "callback"
    /\ \E e \in last.missed :
           /\ observers[last.handle].handled[e] # "never"
           /\ observers[last.handle].visibleClass \in classList[e]

\* ---------------------------------------------------------------------- C4
\* Every class an element carries beyond its markup is the visibleClass of an
\* observer whose callback has handled an intersecting entry for the element.
ClassesComeFromObservers ==
    \A e \in Elements :
        classList[e] =
            InitialClasses(e)
            \cup {observers[h].visibleClass :
                      h \in {g \in Handles : observers[g].handled[e] # "never"}}

\* C4: a call made while window or IntersectionObserver is undefined returns
\* null and does nothing else: it constructs no observer, does not query the
\* document, registers no element and changes no class list; and in every
\* state the classes elements have received come from constructed observers
\* only, so none ever comes from such a call.
C4_UnsupportedIsNoOp ==
    /\ [][(IsCall' /\ Unavailable(CallEnv')) =>
              /\ last'.outcome = "return"
              /\ last'.value = <<Null>>
              /\ observers' = observers
              /\ queried' = queried
              /\ classList' = classList
              /\ doc' = doc]_vars
    /\ [](ClassesComeFromObservers /\ queried = Len(observers))

\* A call in an unsupported environment has just returned null on a page
\* where another watcher is active.
C4_Witness ==
    /\ IsCall
    /\ Unavailable(CallEnv)
    /\ last.value = <<Null>>
    /\ ~IsMalformed(CallSelector)
    /\ QuerySelectorAll(CallSelector, doc, classList) # {}
    /\ observers # <<>>

\* ---------------------------------------------------------------------- C5
\* C5: a call registers exactly the elements that match the selector when it
\* is made, and afterwards the observer's targets stay within that set: an
\* element attached to the document after the call is never a target of the
\* observer and never has an entry handled by its callback.
C5_CallTimeElementsOnly ==
    /\ \A h \in Handles :
           /\ observers[h].targets \subseteq observers[h].matched
           /\ observers[h].matched \subseteq observers[h].present
           /\ \A e \in Elements :
                  e \notin observers[h].present =>
                      /\ e \notin observers[h].targets
                      /\ observers[h].handled[e] = "never"
    /\ (IsCall /\ last.outcome = "return" /\ last.value # <<Null>>) =>
           /\ observers[last.value[1]].present = doc
           /\ observers[last.value[1]].targets =
                  {e \in doc : SelectorClass(CallSelector) \in classList[e]}

\* An element was attached after a watcher's call and the watcher's callback
\* has run since: the new element matches the selector but is not a target.
C5_Witness ==
    /\ last.op = "callback"
    /\ \E e \in doc :
           /\ e \notin observers[last.handle].present
           /\ SelectorClass(observers[last.handle].selector) \in classList[e]
           /\ observers[last.handle].matched # {}

\* ---------------------------------------------------------------------- C6
IsMultiple == last.op = "observeMultiple"

\* The positions of the entries of the last observeMultiple call whose own
\* call saw a supported environment, and the k-th of them in input order.
Kept == {i \in 1 .. Len(last.configs) : ~Unavailable(last.envs[i])}
NthKept(k) == CHOOSE i \in Kept : Cardinality({j \in Kept : j < i}) = k - 1

\* Observer o was constructed for entry c.
BelongsTo(o, c) ==
    /\ o.selector = c.selector
    /\ o.visibleClass = OrDefault(c.options.visibleClass, "visible")
    /\ o.once = OrDefault(c.options.once, TRUE)
    /\ o.threshold = OrDefault(c.options.threshold, 20)
    /\ o.rootMargin = OrDefault(c.options.rootMargin, "0px 0px -50px 0px")

\* C6: when observeMultiple returns, its result holds one handle per entry
\* whose call did not yield null, in input order: the k-th handle is a
\* non-null handle of the observer constructed for the k-th such entry, and
\* the entries whose call yielded null contribute nothing.
C6_NonNullInInputOrder ==
    (IsMultiple /\ last.outcome = "return") =>
        /\ Len(last.mapped) = Len(last.configs)
        /\ \A i \in 1 .. Len(last.configs) :
               (last.mapped[i] = Null) <=> Unavailable(last.envs[i])
        /\ Len(last.value) = Cardinality(Kept)
        /\ \A k \in 1 .. Len(last.value) :
               /\ last.value[k] # Null
               /\ last.value[k] \in Handles
               /\ last.value[k] = last.mapped[NthKept(k)]
               /\ BelongsTo(observers[last.value[k]], last.configs[NthKept(k)])
        /\ \A k \in 1 .. Len(last.value) : \A n \in 1 .. Len(last.value) :
               k < n => last.value[k] < last.value[n]

\* observeMultiple([A, B, C]) has returned where only B's call yielded null
\* and A and C are different entries.
C6_Witness ==
    /\ IsMultiple
    /\ last.outcome = "return"
    /\ Len(last.configs) = 3
    /\ last.envs = <<Browser, NoObserverApi, Browser>>
    /\ last.configs[1] # last.configs[3]
    /\ Len(last.value) = 2

\* ---------------------------------------------------------------------- C7
\* C7 as stated: whenever observeScrollAnimations is called with a malformed
\* selector, the call throws the selector engine's SyntaxError.
C7_MalformedAlwaysThrows ==
    (IsCall /\ CallSelector = "div[") =>
        (last.outcome = "throw" /\ last.error = "SyntaxError")

\* C7, amended: in a supported environment a call with a malformed selector
\* throws the selector engine's SyntaxError and returns nothing.
C7_MalformedThrowsWhenSupported ==
    (IsCall /\ CallSelector = "div[" /\ ~Unavailable(CallEnv)) =>
        /\ last.outcome = "throw"
        /\ last.error = "SyntaxError"
        /\ last.value = <<>>

\* A call with a malformed selector has just thrown in a browser.
C7_Witness ==
    /\ IsCall
    /\ CallSelector = "div["
    /\ CallEnv = Browser
    /\ last.outcome = "throw"

\* ---------------------------------------------------------------------- C8
\* C8: watchers that match the same element do not interfere.  Each adds its
\* own class whatever the others do (an element carries the visibleClass of
\* every watcher whose callback has handled it, so it can carry two), a
\* callback of one observer leaves every other observer as it was, and an
\* element matched by a watcher leaves its targets only through that
\* watcher's own callback.
C8_WatchersIndependent ==
    /\ [](\A h \in Handles : \A e \in Elements :
              /\ observers[h].handled[e] # "never" =>
                     observers[h].visibleClass \in classList[e]
              /\ (e \in observers[h].matched /\ e \notin observers[h].targets) =>
                     observers[h].handled[e] # "never")
    /\ [][last'.op = "callback" =>
              \A h \in Handles :
                  h # last'.handle => observers'[h] = observers[h]]_vars

\* Two watchers with different classes matched the same element; the first
\* (once) has added its class and unobserved it, the second still observes it
\* and has just added its own class: the element carries both.
C8_Witness ==
    /\ last.op = "callback"
    /\ \E h \in Handles : \E e \in Elements :
           /\ h # last.handle
           /\ observers[h].visibleClass # observers[last.handle].visibleClass
           /\ observers[h].once
           /\ observers[h].handled[e] = "once"
           /\ e \notin observers[h].targets
           /\ e \in observers[last.handle].targets
           /\ observers[last.handle].handled[e] # "never"
           /\ observers[h].visibleClass \in classList[e]
           /\ observers[last.handle].visibleClass \in classList[e]

\* ---------------------------------------------------------------------- C9
\* A sequence without the positions whose call saw an unsupported environment.
RECURSIVE DropUnavailable(_, _)
DropUnavailable(seq, envs) ==
    IF seq = <<>> THEN <<>>
    ELSE IF Unavailable(Head(envs))
         THEN DropUnavailable(Tail(seq), Tail(envs))
         ELSE <<Head(seq)>> \o DropUnavailable(Tail(seq), Tail(envs))

C10_EmptyMatchStillReturnsHandle ==
    /\ (/\ IsCall
        /\ ~Unavailable(CallEnv)
        /\ CallSelector # "div["
        /\ {e \in doc : SelectorClass(CallSelector) \in classList[e]} = {}) =>
           /\ last.outcome = "return"
           /\ Len(last.value) = 1
           /\ last.value[1] # Null
           /\ last.value[1] \in Handles
           /\ observers[last.value[1]].selector = CallSelector
           /\ observers[last.value[1]].targets = {}
    /\ \A h \in Handles :
           (observers[h].selector # "div[" /\ observers[h].matched = {}) =>
               /\ observers[h].targets = {}
               /\ \A e \in Elements : observers[h].handled[e] = "never"

\* A call with ".visible" has just returned in a browser while no element of
\* the document carries "visible".
C10_Witness ==
    /\ IsCall
    /\ CallEnv = Browser
    /\ CallSelector = ".visible"
    /\ \A e \in doc : "visible" \notin classList[e]
    /\ last.outcome = "return"
    /\ last.value # <<Null>>

\* --------------------------------------------------------------------- C11
\* C11: an observeMultiple call all of whose entries see an environment without
\* IntersectionObserver returns the empty sequence, whatever the entries are,
\* and constructs no observer, queries nothing, registers no element and
\* changes no class list.
C11_UnsupportedMultipleIsEmpty ==
    [][(IsMultiple' /\ \A i \in 1 .. Len(last'.envs) :
                           last'.envs[i].IntersectionObserver = FALSE) =>
          /\ last'.outcome = "return"
          /\ last'.value = <<>>
          /\ Len(last'.mapped) = Len(last'.configs)
          /\ observers' = observers
          /\ queried' = queried
          /\ classList' = classList
          /\ doc' = doc]_vars

\* observeMultiple has returned the empty sequence for three entries, one of
\* them with a malformed selector, on a page where an observer has targets.
C11_Witness ==
    /\ IsMultiple
    /\ Len(last.configs) = 3
    /\ \A i \in 1 .. 3 : last.envs[i] = NoObserverApi
    /\ \E i \in 1 .. 3 : last.configs[i].selector = "div["
    /\ \E i \in 1 .. 3 : last.configs[i].selector # "div["
    /\ last.value = <<>>
    /\ \E h \in Handles : observers[h].targets # {}

\* --------------------------------------------------------------------- C12
\* The visibleClass an option object resolves to, as the claim reads it.
ClaimedClass(options) ==
    IF options.visibleClass = <<>> THEN "visible" ELSE options.visibleClass[1]

\* C12: the observer a call constructs carries the visibleClass of the call's
\* options, "visible" exactly when none is supplied, and the only class a
\* callback of an observer ever adds to an element is that observer's
\* visibleClass.
C12_OnlyOwnVisibleClass ==
    /\ []((IsCall /\ ~Unavailable(CallEnv)) =>
              observers[Len(observers)].visibleClass = ClaimedClass(CallOptions))
    /\ [][last'.op = "callback" =>
              \A e \in Elements :
                  (classList'[e] \ classList[e])
                      \subseteq {observers[last'.handle].visibleClass}]_vars

\* A watcher with visibleClass "shown" has just handled an intersecting entry
\* for an element: the element carries "shown" and not "visible".
C12_Witness ==
    /\ last.op = "callback"
    /\ observers[last.handle].visibleClass = "shown"
    /\ \E e \in Elements :
           /\ observers[last.handle].handled[e] = "once"
           /\ e \notin last.missed
           /\ "shown" \in classList[e]
           /\ "visible" \notin classList[e]

\* --------------------------------------------------------------------- C13
\* Calls of observeScrollAnimations in a browser, over every combination of
\* supplied and omitted option fields.
NextOptions ==
    \E selector \in Selectors, options \in SuppliedOrAbsent :
        ObserveScrollAnimations(selector, options, Browser)

SpecOptions == Init /\ [][NextOptions]_vars

\* C13: the observer a call constructs has exactly the supplied threshold and
\* rootMargin, and each field the options omit takes its default (0.2,
\* "0px 0px -50px 0px", "visible", true) whichever other fields are supplied.
C13_DefaultsPerField ==
    (IsCall /\ ~Unavailable(CallEnv)) =>
        LET o == observers[Len(observers)]
            given == CallOptions
        IN  /\ o.threshold =
                   IF given.threshold = <<>> THEN 20 ELSE given.threshold[1]
            /\ o.rootMargin =
                   IF given.rootMargin = <<>> THEN "0px 0px -50px 0px"
                   ELSE given.rootMargin[1]
            /\ o.visibleClass =
                   IF given.visibleClass = <<>> THEN "visible"
                   ELSE given.visibleClass[1]
            /\ o.once = IF given.once = <<>> THEN TRUE ELSE given.once[1]

\* A call supplying only threshold 0 and once false has constructed an
\* observer with those two values and the defaults of the other two fields.
C13_Witness ==
    /\ IsCall
    /\ CallOptions = [threshold |-> <<0>>, rootMargin |-> <<>>,
                      visibleClass |-> <<>>, once |-> <<FALSE>>]
    /\ Len(observers) > 0
    /\ observers[Len(observers)].threshold = 0
    /\ observers[Len(observers)].once = FALSE
    /\ observers[Len(observers)].rootMargin = "0px 0px -50px 0px"
    /\ observers[Len(observers)].visibleClass = "visible"

\* --------------------------------------------------------------------- C14
\* The targets of the intersecting entries of a batch.
Intersecting(entries) ==
    {entries[j].target : j \in {i \in 1 .. Len(entries) : entries[i].isIntersecting}}

\* C14: a callback changes only the targets of the intersecting entries of its
\* batch.  An element reported as not intersecting, and an element that is not
\* in the batch, keeps its class list and its registration, whether once is
\* true or false; the intersecting ones gain the observer's class and nothing
\* else; other observers, the document and the query count are untouched.
C14_OnlyIntersectingEntriesAct ==
    [][\A h \in {last'.handle} \cap Handles :
       \A entries \in Batches(observers[h].targets) :
           (last'.op = "callback" /\ Report(h, entries)) =>
               /\ \A e \in Elements \ Intersecting(entries) :
                      /\ classList'[e] = classList[e]
                      /\ (e \in observers'[h].targets) = (e \in observers[h].targets)
                      /\ observers'[h].handled[e] = observers[h].handled[e]
               /\ \A e \in Intersecting(entries) :
                      classList'[e] = classList[e] \cup {observers[h].visibleClass}
               /\ \A g \in Handles : g # h => observers'[g] = observers[g]
               /\ doc' = doc
               /\ queried' = queried]_vars

\* The callback of a once-watcher has run on a batch that reported one of its
\* elements as not intersecting: that element is still registered, has never
\* been handled and does not carry the class, while another element of the
\* watcher has been shown and unobserved.
C14_Witness ==
    /\ last.op = "callback"
    /\ observers[last.handle].once
    /\ \E e \in last.missed : \E shown \in Elements \ last.missed :
           /\ e \in observers[last.handle].targets
           /\ observers[last.handle].handled[e] = "never"
           /\ observers[last.handle].visibleClass \notin classList[e]
           /\ observers[last.handle].handled[shown] = "once"
           /\ shown \notin observers[last.handle].targets

\* --------------------------------------------------------------------- C15
\* The elements the selector of entry c matches in the current document.
MatchedNow(c) == {e \in doc : SelectorClass(c.selector) \in classList[e]}

\* C15: every call that succeeds constructs exactly one observer, registers
\* all the elements its selector matches with it and returns it.  So an
\* observeMultiple call that returns with every entry in a supported
\* environment adds one observer per entry and returns one handle per entry,
\* all distinct, in input order: the result is as long as the input.
C15_OneObserverPerCall ==
    [][(IsMultiple' /\ last'.outcome = "return"
            /\ \A i \in 1 .. Len(last'.envs) : ~Unavailable(last'.envs[i])) =>
          /\ Len(last'.value) = Len(last'.configs)
          /\ Len(observers') = Len(observers) + Len(last'.configs)
          /\ \A h \in Handles : observers'[h] = observers[h]
          /\ \A k \in 1 .. Len(last'.configs) :
                 /\ last'.value[k] = Len(observers) + k
                 /\ BelongsTo(observers'[last'.value[k]], last'.configs[k])
                 /\ observers'[last'.value[k]].targets = MatchedNow(last'.configs[k])
          /\ \A j, k \in 1 .. Len(last'.value) :
                 j # k => last'.value[j] # last'.value[k]]_vars

\* observeMultiple has returned two different handles for two entries in a
\* supported environment; each of the two observers has its own class and
\* has all matched elements registered.
C15_Witness ==
    /\ IsMultiple
    /\ last.outcome = "return"
    /\ Len(last.configs) = 2
    /\ \A i \in 1 .. 2 : last.envs[i] = Browser
    /\ Len(last.value) = 2
    /\ last.value[1] # last.value[2]
    /\ last.value[2] = Len(observers)
    /\ observers[last.value[1]].visibleClass # observers[last.value[2]].visibleClass
    /\ \A k \in 1 .. 2 : observers[last.value[k]].targets = Elements

\* --------------------------------------------------------------------- C16
\* C16: for a watcher with once = true, every element matched at the time of
\* the call is still registered with its observer or carries its visibleClass.
\* The registered set only shrinks, and an element leaves it only in a
\* callback step of that observer that handled an intersecting entry for it,
\* after which the element carries the class.
C16_OnceRegisteredOrShown ==
    /\ [](\A h \in Handles : observers[h].once =>
              \A e \in observers[h].matched :
                  \/ e \in observers[h].targets
                  \/ observers[h].visibleClass \in classList[e])
    /\ [][\A h \in Handles : observers[h].once =>
              /\ observers'[h].targets \subseteq observers[h].targets
              /\ observers'[h].matched = observers[h].matched
              /\ \A e \in observers[h].targets \ observers'[h].targets :
                     /\ last'.op = "callback"
                     /\ last'.handle = h
                     /\ e \notin last'.missed
                     /\ observers[h].handled[e] = "never"
                     /\ observers'[h].handled[e] = "once"
                     /\ observers[h].visibleClass \in classList'[e]]_vars

\* A once-watcher matched two elements and a callback has just emptied its
\* registered set: both elements carry the class and neither is registered.
C16_Witness ==
    /\ last.op = "callback"
    /\ observers[last.handle].once
    /\ observers[last.handle].matched = Elements
    /\ observers[last.handle].targets = {}
    /\ last.missed = {}
    /\ \A e \in Elements : observers[last.handle].visibleClass \in classList[e]

\* --------------------------------------------------------------------- C17
\* The positions of the entries of a list whose selector is malformed and
\* whose call sees a supported environment, and the supported entries before
\* position k.
Failing(configs, envs) ==
    {i \in 1 .. Len(configs) :
         configs[i].selector = "div[" /\ ~Unavailable(envs[i])}
FirstOf(S) == CHOOSE i \in S : \A j \in S : i <= j
SupportedBefore(envs, k) == {i \in 1 .. k - 1 : ~Unavailable(envs[i])}

\* C17: when the first entry with a malformed selector in a supported
\* environment is entry k, observeMultiple fails as a whole with the selector
\* error and returns no handle.  Nothing is rolled back: the observer of every
\* supported entry before k exists with all its matched elements registered,
\* the observer constructed for entry k exists with no element, and entries
\* after k are never processed (no result, no observer, no query for them).
\* No later step removes an observer.
C17_FailureLeavesEarlierObservers ==
    /\ [][(IsMultiple' /\ Failing(last'.configs, last'.envs) # {}) =>
            LET configs == last'.configs
                envs == last'.envs
                k == FirstOf(Failing(configs, envs))
                before == SupportedBefore(envs, k)
                Position(i) == Len(observers)
                                   + Cardinality({j \in before : j <= i})
            IN  /\ last'.outcome = "throw"
                /\ last'.error = "SyntaxError"
                /\ last'.value = <<>>
                /\ Len(last'.mapped) = k - 1
                /\ Len(observers') = Len(observers) + Cardinality(before) + 1
                /\ queried' = queried + Cardinality(before) + 1
                /\ \A h \in Handles : observers'[h] = observers[h]
                /\ \A i \in before :
                       /\ last'.mapped[i] = Position(i)
                       /\ BelongsTo(observers'[Position(i)], configs[i])
                       /\ observers'[Position(i)].targets = MatchedNow(configs[i])
                /\ BelongsTo(observers'[Len(observers')], configs[k])
                /\ observers'[Len(observers')].targets = {}]_vars
    /\ [][/\ Len(observers') >= Len(observers)
          /\ \A h \in Handles :
                 /\ observers'[h].selector = observers[h].selector
                 /\ last'.op # "callback" => observers'[h] = observers[h]]_vars

\* observeMultiple has failed at its second entry of three: the first entry's
\* observer is there with both elements registered, the second entry's
\* observer is there with none, and nothing exists for the third entry, whose
\* environment was supported.
C17_Witness ==
    /\ IsMultiple
    /\ last.outcome = "throw"
    /\ Len(last.configs) = 3
    /\ \A i \in 1 .. 3 : last.envs[i] = Browser
    /\ last.configs[1].selector = ".fade-in-up"
    /\ last.configs[2].selector = "div["
    /\ last.configs[3].selector = ".fade-in-up"
    /\ last.value = <<>>
    /\ Len(observers) = 2
    /\ observers[1].targets = Elements
    /\ observers[2].selector = "div["
    /\ observers[2].targets = {}

\* --------------------------------------------------------------------- C18
\* C18: the environment check comes before the selector query.  In an
\* unsupported environment a call returns null for every selector, a
\* malformed one included, without raising and without querying.  In a
\* supported environment a malformed selector raises only after the observer
\* has been constructed: the call leaves one more observer, with no element
\* registered, and returns no handle.
C18_EnvironmentCheckedBeforeQuery ==
    [][IsCall' =>
          /\ Unavailable(last'.envs[1]) =>
                 /\ last'.outcome = "return"
                 /\ last'.error = ""
                 /\ last'.value = <<Null>>
                 /\ queried' = queried
                 /\ observers' = observers
          /\ (~Unavailable(last'.envs[1])
                  /\ last'.configs[1].selector = "div[") =>
                 /\ last'.outcome = "throw"
                 /\ last'.value = <<>>
                 /\ queried' = queried + 1
                 /\ Len(observers') = Len(observers) + 1
                 /\ \A h \in Handles : observers'[h] = observers[h]
                 /\ BelongsTo(observers'[Len(observers')], last'.configs[1])
                 /\ observers'[Len(observers')].targets = {}
                 /\ observers'[Len(observers')].matched = {}]_vars

\* A call with the malformed selector has just returned null where there is
\* no window, on a page where an earlier call with the same selector in a
\* browser has thrown and left its observer behind, with no element.
C18_Witness ==
    /\ IsCall
    /\ CallSelector = "div["
    /\ CallEnv = NoWindow
    /\ last.outcome = "return"
    /\ last.value = <<Null>>
    /\ \E h \in Handles :
           /\ observers[h].selector = "div["
           /\ observers[h].targets = {}
           /\ queried >= h

====
